---- MODULE Spec2Model ----
(***************************************************************************)
(* Model of webcrawl.go: the recursive concurrent Crawl, the examine       *)
(* goroutine that owns emap, and main.  Goroutines are modelled by their   *)
(* program position; every channel of the program is unbuffered, so a send *)
(* and its matching receive are one joint step of the two goroutines.      *)
(*                                                                         *)
(* A Crawl goroutine is named by its spawn path: <<>> is the goroutine     *)
(* started by main, Append(p, k) the goroutine started by the k-th         *)
(* iteration of the spawn loop of goroutine p.                             *)
(***************************************************************************)
EXTENDS Integers, Sequences, FiniteSets, TLC

VARIABLES
    fetcher,    \* the fakeFetcher map handed to Crawl: url -> list of urls
    maxDepth,   \* the depth argument of the first Crawl
    mainpc,     \* position of main
    authpc,     \* position of the examine goroutine started at line 89
    v,          \* the Examine value the examine goroutine is working on
    goahead,    \* local variable goahead of the examine goroutine
    emap,       \* the map of urls already asked about
    tasks,      \* spawn path -> state of that Crawl goroutine
    fetchCount, \* history: url -> number of calls of fetcher.Fetch(url)
    firstReq    \* history: url -> the Crawl whose request for it was received first

vars == <<fetcher, maxDepth, mainpc, authpc, v, goahead, emap, tasks, fetchCount, firstReq>>

----
\* The urls of the canned data set
golang == "http://golang.org/"
pkg == "http://golang.org/pkg/"
cmd == "http://golang.org/cmd/"
fmt == "http://golang.org/pkg/fmt/"
os == "http://golang.org/pkg/os/"

Urls == {golang, pkg, cmd, fmt, os}

\* var fetcher = fakeFetcher{...}: cmd has no entry
CannedFetcher ==
    (golang :> <<pkg, cmd>>) @@ (pkg :> <<golang, cmd, fmt, os>>)
    @@ (fmt :> <<golang, pkg>>) @@ (os :> <<golang, pkg>>)

\* go Crawl("http://golang.org/", 4, ...)
Root == golang
CannedDepth == 4

\* The graph of the documented scenario, A..E = golang, pkg, cmd, fmt, os
ScenarioFetcher ==
    (golang :> <<pkg, cmd>>) @@ (pkg :> <<golang, cmd, fmt, os>>)
    @@ (cmd :> <<golang, pkg>>) @@ (fmt :> <<golang, pkg>>) @@ (os :> <<>>)

\* Bounds of the inputs
MaxDepth == 3
MaxLinks == 2

\* All sequences over S of length at most n
RECURSIVE SeqsUpTo(_, _)
SeqsUpTo(S, n) ==
    IF n = 0 THEN {<<>>}
    ELSE LET shorter == SeqsUpTo(S, n - 1)
         IN shorter \cup {Append(s, x) : s \in {q \in shorter : Len(q) = n - 1}, x \in S}

\* Every fake fetcher over the two urls golang and pkg with at most MaxLinks links a page
SmallFetchers ==
    LET pages == SeqsUpTo({golang, pkg}, MaxLinks)
    IN UNION {[D -> pages] : D \in SUBSET {golang, pkg}}

\* Larger link graphs: a failing leaf, a cycle through a failing page, a
\* page reachable over two concurrent paths, a failing sibling, and a page
\* (cmd) reachable over a path of one link and over a path of two links
ShapedFetchers ==
    { (golang :> <<pkg, cmd>>) @@ (pkg :> <<fmt>>) @@ (cmd :> <<fmt>>) @@ (fmt :> <<golang>>),
      (golang :> <<pkg, cmd>>) @@ (pkg :> <<golang, fmt>>),
      (golang :> <<cmd, pkg>>) @@ (pkg :> <<fmt, os>>) @@ (fmt :> <<>>),
      (golang :> <<pkg, cmd>>) @@ (pkg :> <<cmd>>) @@ (cmd :> <<fmt>>) }

Fetchers == SmallFetchers \cup ShapedFetchers

----
\* Mutation: the error test is inverted
FailedInverted(res) == ~res.err

\* if err != nil
Failed(res) == res.err

\* fakeFetcher.Fetch: the canned urls, or an error for an unknown url
Fetch(f, url) ==
    IF url \in DOMAIN f THEN [urls |-> f[url], err |-> FALSE]
    ELSE [urls |-> <<>>, err |-> TRUE]

\* goahead := emap[v.Url] (a missing key reads as false)
ReadEmap(m, url) == m[url]

\* Mutation: the examine goroutine forgets to record the url
MarkClaimedForgets(m, url) == m

\* Mutation: the marker is set to the answer, so a second request clears it
MarkClaimedToggles(m, url) == [m EXCEPT ![url] = ~m[url]]

\* Mutation: the map is replaced by one that holds the url only
MarkClaimedFresh(m, url) == [u \in DOMAIN m |-> u = url]

\* emap[v.Url] = true
MarkClaimed(m, url) == [m EXCEPT ![url] = TRUE]

\* Mutation: the go-ahead is sent without the negation
AnswerNotNegated(g) == g

\* Mutation: every request is given the go-ahead
AnswerAlways(g) == TRUE

\* v.Goahead <- !goahead
Answer(g) == ~g

\* Mutation: the depth test is off by one and stops a Crawl that has depth 1
DepthExhaustedEarly(depth) == depth <= 1

\* if depth <= 0 { return }
DepthExhausted(depth) == depth <= 0

\* Mutation: the children are started with the depth of their parent
ChildDepthSame(depth) == depth

\* go Crawl(u, depth-1, ...)
ChildDepth(depth) == depth - 1

\* Mutation: the wait loop receives one signal too few
JoinCountShort(urls) == IF Len(urls) > 0 THEN Len(urls) - 1 ELSE 0

\* Mutation: the wait loop receives one signal too many
JoinCountLong(urls) == Len(urls) + 1

\* for range urls { <-subch }: the number of receives
JoinCount(urls) == Len(urls)

\* Mutation: the send is deferred only after the claim test, so a refused
\* Crawl returns without it
ExitPcLateDefer(why) == IF why = "refused" THEN "exited" ELSE "defer"

\* defer func () { ch <- url}(): where a returning Crawl goes, by exit path
ExitPc(why) == "defer"

\* A channel of completion signals is named by its maker: ch := make(chan
\* string) of main, and subch := make(chan string) of the Crawl with path t
MainCh == <<0>>
Subch(t) == t

\* Mutation: the children are handed the channel of their parent, not subch
ChildChOwn(t, ch) == ch

\* go Crawl(u, depth-1, fetcher, examine, subch): the channel of the children
\* of the Crawl t, which itself reports on ch
ChildCh(t, ch) == Subch(t)

\* Mutation: the depth is tested before the examine round trip
NewTaskDepthFirst(url, depth, ch) ==
    [url |-> url, depth |-> depth, ch |-> ch,
     pc |-> IF depth <= 0 THEN "defer" ELSE "ask",
     asked |-> 0, b |-> FALSE, urls |-> <<>>,
     i |-> 0, recvd |-> {}, sent |-> 0, called |-> 0,
     why |-> IF depth <= 0 THEN "depth" ELSE "none"]

\* A Crawl goroutine that has just been started: it goes to its send on examine
NewTask(url, depth, ch) ==
    [url |-> url, depth |-> depth, ch |-> ch, pc |-> "ask", asked |-> 0,
     b |-> FALSE, urls |-> <<>>,
     i |-> 0, recvd |-> {}, sent |-> 0, called |-> 0, why |-> "none"]

\* Mutation: the answer is not tested
RefusedNever(b) == FALSE

\* if !b { return }
Refused(b) == ~b

\* Mutation: the examine goroutine answers one request and ends
AuthLoopOnce == "stopped"

\* for { ... }: after its send the examine goroutine is back at v := <-examine
AuthLoop == "recv"

\* Mutation: a request is taken while the previous one is still worked on
AuthReadyAnytime == authpc # "none"

\* v := <-examine: the examine goroutine receives only at the top of its loop
AuthReady == authpc = "recv"

\* return, by the exit path taken
Return(r, why) == [r EXCEPT !.pc = ExitPc(why), !.why = why]

\* Mutation: Crawl returns after the spawn loop without waiting
ContinueNoWait(r) ==
    IF r.i < Len(r.urls) THEN [r EXCEPT !.pc = "spawn"] ELSE Return(r, "joined")

\* The two loops after a successful Fetch: spawn, then wait, then return
Continue(r) ==
    IF r.i < Len(r.urls) THEN [r EXCEPT !.pc = "spawn"]
    ELSE IF Cardinality(r.recvd) < JoinCount(r.urls) THEN [r EXCEPT !.pc = "wait"]
    ELSE Return(r, "joined")

Parent(c) == SubSeq(c, 1, Len(c) - 1)

NoReq == [task |-> <<>>, Url |-> ""]

----
InitWith(f, d) ==
    /\ fetcher = f
    /\ maxDepth = d
    /\ mainpc = "go_crawl"
    /\ authpc = "none"
    /\ v = NoReq
    /\ goahead = FALSE
    /\ emap = [u \in Urls |-> FALSE]
    /\ tasks = <<>>
    /\ fetchCount = [u \in Urls |-> 0]
    /\ firstReq = <<>>

Init == \E f \in Fetchers, d \in 0..MaxDepth : InitWith(f, d)

InitCanned == \E f \in {CannedFetcher, ScenarioFetcher} : InitWith(f, CannedDepth)

\* main: go Crawl("http://golang.org/", 4, fetcher, examine, ch)
MainGoCrawl ==
    /\ mainpc = "go_crawl"
    /\ mainpc' = "go_examine"
    /\ tasks' = (<<>> :> NewTask(Root, maxDepth, MainCh))
    /\ UNCHANGED <<fetcher, maxDepth, authpc, v, goahead, emap, fetchCount, firstReq>>

\* main: go func() { for { ... } }()
MainGoExamine ==
    /\ mainpc = "go_examine"
    /\ mainpc' = "wait"
    /\ authpc' = "recv"
    /\ UNCHANGED <<fetcher, maxDepth, v, goahead, emap, tasks, fetchCount, firstReq>>

\* Crawl: examine <- Examine{shoulddo, url}, met by v := <-examine
Examine(t) ==
    /\ t \in DOMAIN tasks
    /\ tasks[t].pc = "ask"
    /\ AuthReady
    /\ v' = [task |-> t, Url |-> tasks[t].url]
    /\ authpc' = "read"
    /\ tasks' = [tasks EXCEPT ![t].pc = "await", ![t].asked = @ + 1]
    /\ firstReq' = IF tasks[t].url \in DOMAIN firstReq THEN firstReq
                   ELSE (tasks[t].url :> t) @@ firstReq
    /\ UNCHANGED <<fetcher, maxDepth, mainpc, goahead, emap, fetchCount>>

\* examine goroutine: goahead := emap[v.Url]
AuthRead ==
    /\ authpc = "read"
    /\ goahead' = ReadEmap(emap, v.Url)
    /\ authpc' = "write"
    /\ UNCHANGED <<fetcher, maxDepth, mainpc, v, emap, tasks, fetchCount, firstReq>>

\* examine goroutine: emap[v.Url] = true
AuthWrite ==
    /\ authpc = "write"
    /\ emap' = MarkClaimed(emap, v.Url)
    /\ authpc' = "send"
    /\ UNCHANGED <<fetcher, maxDepth, mainpc, v, goahead, tasks, fetchCount, firstReq>>

\* examine goroutine: v.Goahead <- !goahead, met by b := <-shoulddo of the
\* asking Crawl, which then tests b and depth
Reply ==
    /\ authpc = "send"
    /\ tasks[v.task].pc = "await"
    /\ LET r == [tasks[v.task] EXCEPT !.b = Answer(goahead)]
       IN tasks' = [tasks EXCEPT ![v.task] =
                       IF Refused(r.b) THEN Return(r, "refused")
                       ELSE IF DepthExhausted(r.depth) THEN Return(r, "depth")
                       ELSE [r EXCEPT !.pc = "fetch"]]
    /\ authpc' = AuthLoop
    /\ v' = NoReq
    /\ goahead' = FALSE
    /\ UNCHANGED <<fetcher, maxDepth, mainpc, emap, fetchCount, firstReq>>

\* Crawl: body, urls, err := fetcher.Fetch(url); if err != nil { return }
CallFetch(t) ==
    /\ t \in DOMAIN tasks
    /\ tasks[t].pc = "fetch"
    /\ LET res == Fetch(fetcher, tasks[t].url)
           r == [tasks[t] EXCEPT !.called = @ + 1, !.urls = res.urls]
       IN tasks' = [tasks EXCEPT ![t] =
                       IF Failed(res) THEN Return(r, "fetcherr") ELSE Continue(r)]
    /\ fetchCount' = [fetchCount EXCEPT ![tasks[t].url] = @ + 1]
    /\ UNCHANGED <<fetcher, maxDepth, mainpc, authpc, v, goahead, emap, firstReq>>

\* Mutation: the spawning Crawl records the url of the child in emap itself
SpawnMarks(t) ==
    /\ t \in DOMAIN tasks
    /\ tasks[t].pc = "spawn"
    /\ LET r == tasks[t]
           k == r.i + 1
       IN /\ tasks' = (Append(t, k) :> NewTask(r.urls[k], ChildDepth(r.depth), ChildCh(t, r.ch)))
                      @@ [tasks EXCEPT ![t] = Continue([r EXCEPT !.i = k])]
          /\ emap' = [emap EXCEPT ![r.urls[k]] = TRUE]
    /\ UNCHANGED <<fetcher, maxDepth, mainpc, authpc, v, goahead, fetchCount, firstReq>>

\* Crawl: one iteration of for _, u := range urls { go Crawl(u, depth-1, ..., subch) }
Spawn(t) ==
    /\ t \in DOMAIN tasks
    /\ tasks[t].pc = "spawn"
    /\ LET r == tasks[t]
           k == r.i + 1
       IN tasks' = (Append(t, k) :> NewTask(r.urls[k], ChildDepth(r.depth), ChildCh(t, r.ch)))
                   @@ [tasks EXCEPT ![t] = Continue([r EXCEPT !.i = k])]
    /\ UNCHANGED <<fetcher, maxDepth, mainpc, authpc, v, goahead, emap, fetchCount, firstReq>>

\* Crawl c: the deferred ch <- url, met by <-subch in the wait loop of the
\* Crawl that made the channel c reports on
Report(c) ==
    /\ c \in DOMAIN tasks
    /\ tasks[c].pc = "defer"
    /\ tasks[c].ch \in DOMAIN tasks
    /\ tasks[tasks[c].ch].pc = "wait"
    /\ LET p == tasks[c].ch
           r == [tasks[p] EXCEPT !.recvd = @ \cup {c}]
       IN tasks' = [[tasks EXCEPT ![p] = Continue(r)]
                       EXCEPT ![c].pc = "exited", ![c].sent = @ + 1]
    /\ UNCHANGED <<fetcher, maxDepth, mainpc, authpc, v, goahead, emap, fetchCount, firstReq>>

\* A Crawl reporting on the channel of main: the deferred ch <- url, met by
\* <-ch in main
MainWait ==
    /\ mainpc = "wait"
    /\ \E c \in DOMAIN tasks :
          /\ tasks[c].ch = MainCh
          /\ tasks[c].pc = "defer"
          /\ tasks' = [tasks EXCEPT ![c].pc = "exited", ![c].sent = @ + 1]
    /\ mainpc' = "returned"
    /\ UNCHANGED <<fetcher, maxDepth, authpc, v, goahead, emap, fetchCount, firstReq>>

Next ==
    \/ MainGoCrawl
    \/ MainGoExamine
    \/ MainWait
    \/ AuthRead
    \/ AuthWrite
    \/ Reply
    \/ \E t \in DOMAIN tasks : Examine(t)
    \/ \E t \in DOMAIN tasks : CallFetch(t)
    \/ \E t \in DOMAIN tasks : Spawn(t)
    \/ \E t \in DOMAIN tasks : Report(t)

Spec == Init /\ [][Next]_vars

SpecCanned == InitCanned /\ [][Next]_vars

\* Go runs every goroutine that can take a step
FairSpec == Init /\ [][Next]_vars /\ WF_vars(Next)

TypeOK ==
    /\ mainpc \in {"go_crawl", "go_examine", "wait", "returned"}
    /\ authpc \in {"none", "recv", "read", "write", "send"}
    /\ \A t \in DOMAIN tasks :
          tasks[t].pc \in {"ask", "await", "fetch", "spawn", "wait", "defer", "exited"}
----
\* Helpers of the properties
Answered(t) == tasks[t].pc \notin {"ask", "await"}
Won(t) == Answered(t) /\ tasks[t].b
Finished(t) == tasks[t].pc \in {"defer", "exited"}
Children(t) == {c \in DOMAIN tasks : c # <<>> /\ Parent(c) = t}
IsPrefix(s, t) == Len(s) <= Len(t) /\ SubSeq(t, 1, Len(s)) = s
AllExited == \A t \in DOMAIN tasks : tasks[t].pc = "exited"

\* C1: fetcher.Fetch is called at most once for every url, in every
\* interleaving, also for a url that several Crawls ask about
Uniqueness == \A u \in Urls : fetchCount[u] <= 1

\* Two Crawls for one url have both been answered and the url was fetched once
UniquenessWitness ==
    \E t1, t2 \in DOMAIN tasks :
        /\ t1 # t2
        /\ tasks[t1].url = tasks[t2].url
        /\ Answered(t1) /\ Answered(t2)
        /\ Parent(t1) # Parent(t2)
        /\ fetchCount[tasks[t1].url] = 1

\* C2: the examine round trip answers true to the Crawl whose request for a
\* url the examine goroutine received first, and false to every other Crawl
\* asking for that url; no two Crawls for one url both get true
ClaimOnce ==
    /\ \A t \in DOMAIN tasks :
          Answered(t) => (tasks[t].b <=> firstReq[tasks[t].url] = t)
    /\ \A t1, t2 \in DOMAIN tasks :
          (Won(t1) /\ Won(t2) /\ tasks[t1].url = tasks[t2].url) => t1 = t2

\* One Crawl was given the go-ahead for a url and two others were refused it
ClaimOnceWitness ==
    \E t1, t2, t3 \in DOMAIN tasks :
        /\ t2 # t3
        /\ tasks[t1].url = tasks[t2].url /\ tasks[t1].url = tasks[t3].url
        /\ Won(t1)
        /\ Answered(t2) /\ ~tasks[t2].b
        /\ Answered(t3) /\ ~tasks[t3].b

\* C3: a Crawl whose completion signal has been received has started all its
\* children and received the signal of each, so everything in its subtree has
\* delivered its signal before
JoinBeforeReport ==
    \A t \in DOMAIN tasks :
        tasks[t].pc = "exited" =>
            /\ tasks[t].i = Len(tasks[t].urls)
            /\ Children(t) = {Append(t, k) : k \in 1..Len(tasks[t].urls)}
            /\ tasks[t].recvd = Children(t)
            /\ \A c \in DOMAIN tasks : IsPrefix(t, c) => tasks[c].pc = "exited"

\* A Crawl below the first one has delivered its signal after its own children did
JoinBeforeReportWitness ==
    \E t \in DOMAIN tasks :
        /\ t # <<>>
        /\ tasks[t].pc = "exited"
        /\ Cardinality(Children(t)) >= 2
        /\ mainpc = "wait"

\* C4: on each of the four exit paths a Crawl sends its completion signal
\* once: a Crawl that has returned is at its deferred send or has completed
\* it, a Crawl that is gone has sent one signal, and no Crawl sends two
ExactlyOneSignal ==
    \A t \in DOMAIN tasks :
        /\ tasks[t].sent <= 1
        /\ (tasks[t].pc = "exited" <=> tasks[t].sent = 1)
        /\ (tasks[t].why # "none" <=> Finished(t))
        /\ Finished(t) => tasks[t].why \in {"refused", "depth", "fetcherr", "joined"}

\* Crawls have gone through each of the four exit paths and sent their signal
ExactlyOneSignalWitness ==
    \A w \in {"refused", "depth", "fetcherr", "joined"} :
        \E t \in DOMAIN tasks :
            tasks[t].why = w /\ tasks[t].pc = "exited" /\ tasks[t].sent = 1

\* C5: under fair scheduling main returns from <-ch and every Crawl has
\* delivered its signal, for every fetcher and depth, failing fetches included
Termination == <>[](mainpc = "returned" /\ AllExited)

\* main has returned from a run in which a Fetch failed
TerminationWitness ==
    /\ mainpc = "returned"
    /\ \E t \in DOMAIN tasks : tasks[t].why = "fetcherr"
    /\ Cardinality(DOMAIN tasks) >= 4

\* C6: when main has returned from <-ch every Crawl started in the run has
\* delivered its completion signal
DriverReturnsLast == mainpc = "returned" => AllExited

\* main has returned from a run with Crawls three generations deep
DriverReturnsLastWitness ==
    /\ mainpc = "returned"
    /\ \E t \in DOMAIN tasks : Len(t) >= 3

\* C7: a Crawl g generations below the first runs with depth maxDepth - g;
\* only a Crawl with depth > 0 calls Fetch, so no fetch happens more than
\* maxDepth generations down; a Crawl with depth <= 0 has its url recorded in
\* emap and returns without Fetch; with maxDepth = 0 main returns after the
\* single Crawl, golang recorded and nothing fetched
DepthBound ==
    /\ \A t \in DOMAIN tasks :
          /\ tasks[t].depth = maxDepth - Len(t)
          /\ tasks[t].called > 0 => (tasks[t].depth > 0 /\ Len(t) <= maxDepth)
          /\ (tasks[t].depth <= 0 /\ Answered(t)) =>
                /\ emap[tasks[t].url]
                /\ tasks[t].called = 0
                /\ tasks[t].why \in {"refused", "depth"}
                /\ Children(t) = {}
    /\ (maxDepth = 0 /\ mainpc = "returned") =>
          /\ emap[Root]
          /\ \A u \in Urls : fetchCount[u] = 0
          /\ DOMAIN tasks = {<<>>}

\* A Crawl below the first one got the go-ahead with depth 0 and returned
DepthBoundWitness ==
    \E t \in DOMAIN tasks :
        /\ Len(t) >= 1
        /\ tasks[t].depth = 0
        /\ tasks[t].why = "depth"
        /\ tasks[t].pc = "exited"

\* C8: a Crawl that got the go-ahead with depth > 0 is about to call Fetch or
\* has called it, and after a successful Fetch it goes on to start one child
\* for each link of the page, whatever Fetch failures happened elsewhere
FailureContainment ==
    \A t \in DOMAIN tasks :
        (Won(t) /\ tasks[t].depth > 0) =>
            \/ tasks[t].pc = "fetch" /\ tasks[t].called = 0
            \/ /\ tasks[t].called = 1
               /\ fetchCount[tasks[t].url] = 1
               /\ tasks[t].url \in DOMAIN fetcher =>
                     /\ tasks[t].urls = fetcher[tasks[t].url]
                     /\ \A k \in 1..tasks[t].i :
                           /\ Append(t, k) \in DOMAIN tasks
                           /\ tasks[Append(t, k)].url = tasks[t].urls[k]
                     /\ tasks[t].pc # "spawn" => tasks[t].i = Len(tasks[t].urls)

\* After the Fetch of one url failed, a Crawl in another subtree fetched its
\* page and started its children, one of which is about to fetch in turn
FailureContainmentWitness ==
    \E x, y, z \in DOMAIN tasks :
        /\ tasks[x].why = "fetcherr"
        /\ ~IsPrefix(x, y) /\ ~IsPrefix(y, x)
        /\ Won(y) /\ tasks[y].called = 1
        /\ tasks[y].i = Len(tasks[y].urls)
        /\ z \in Children(y)
        /\ tasks[z].pc = "fetch"

\* C9: a Crawl whose Fetch fails reports the error, has no links, starts no
\* child and returns to its one deferred send; its parent still returns
\* after the join; with golang -> {pkg} and no page for pkg, both are
\* fetched once, the first Crawl returns after the join and main returns
FetchFailureLocal ==
    /\ \A t \in DOMAIN tasks :
          (tasks[t].called > 0 /\ tasks[t].url \notin DOMAIN fetcher) =>
              /\ tasks[t].why = "fetcherr"
              /\ Finished(t)
              /\ tasks[t].urls = <<>>
              /\ Children(t) = {}
              /\ tasks[t].sent <= 1
              /\ (t # <<>> /\ Finished(Parent(t))) => tasks[Parent(t)].why = "joined"
    /\ \A t \in DOMAIN tasks :
          (tasks[t].called > 0 /\ tasks[t].url \in DOMAIN fetcher) =>
              tasks[t].why \in {"none", "joined"}
    /\ (fetcher = (golang :> <<pkg>>) /\ maxDepth >= 2 /\ mainpc = "returned") =>
          /\ fetchCount[golang] = 1
          /\ fetchCount[pkg] = 1
          /\ tasks[<<>>].why = "joined"
          /\ <<1>> \in DOMAIN tasks
          /\ tasks[<<1>>].why = "fetcherr"

\* golang -> {pkg}, the Fetch of pkg failed, and main has returned
FetchFailureLocalWitness ==
    /\ fetcher = (golang :> <<pkg>>)
    /\ mainpc = "returned"
    /\ <<1>> \in DOMAIN tasks
    /\ tasks[<<1>>].why = "fetcherr"
    /\ tasks[<<1>>].sent = 1

\* C10: with golang, depth 4 and the canned links (as written in the program
\* and as written in the scenario), no url is fetched twice and when main
\* returns each of the five urls has been fetched once
CannedScenario ==
    /\ \A u \in Urls : fetchCount[u] <= 1
    /\ mainpc = "returned" => \A u \in Urls : fetchCount[u] = 1

\* main has returned from the canned run, in which golang was found again
\* on the pages of pkg and of another url
CannedScenarioWitness ==
    /\ mainpc = "returned"
    /\ fetcher = CannedFetcher
    /\ \A u \in Urls : fetchCount[u] = 1
    /\ Cardinality({t \in DOMAIN tasks : tasks[t].url = golang /\ tasks[t].why = "refused"}) >= 2

\* C11: a Crawl that was answered false has returned on the refused path: it
\* asked once, never called Fetch, holds no links, started no child and
\* received no signal; all it does is its deferred send
RefusedDoesNothing ==
    \A t \in DOMAIN tasks :
        (Answered(t) /\ ~tasks[t].b) =>
            /\ tasks[t].why = "refused"
            /\ Finished(t)
            /\ tasks[t].asked = 1
            /\ tasks[t].called = 0
            /\ tasks[t].urls = <<>>
            /\ tasks[t].i = 0
            /\ Children(t) = {}
            /\ tasks[t].recvd = {}
            /\ tasks[t].sent <= 1

\* A Crawl with depth > 0 for a url whose page has links was refused and is gone
RefusedDoesNothingWitness ==
    \E t \in DOMAIN tasks :
        /\ Answered(t) /\ ~tasks[t].b
        /\ tasks[t].depth > 0
        /\ tasks[t].url \in DOMAIN fetcher
        /\ fetcher[tasks[t].url] # <<>>
        /\ tasks[t].pc = "exited"

\* C12: a Crawl that returned because depth <= 0 was the first to ask for its
\* url, the url is recorded in emap, and the url is never fetched: every other
\* Crawl for it, also one with depth > 0, is refused
ClaimBeforeDepth ==
    \A t \in DOMAIN tasks :
        tasks[t].why = "depth" =>
            /\ tasks[t].asked = 1
            /\ firstReq[tasks[t].url] = t
            /\ emap[tasks[t].url]
            /\ fetchCount[tasks[t].url] = 0
            /\ \A o \in DOMAIN tasks :
                  (o # t /\ tasks[o].url = tasks[t].url /\ Answered(o)) =>
                      (tasks[o].why = "refused" /\ tasks[o].called = 0)

\* A url was claimed by a Crawl with depth 0, and a Crawl with depth > 0 that
\* asked for the same url later was refused; main has returned
ClaimBeforeDepthWitness ==
    /\ mainpc = "returned"
    /\ \E t, o \in DOMAIN tasks :
          /\ tasks[t].why = "depth"
          /\ tasks[o].url = tasks[t].url
          /\ tasks[o].depth > 0
          /\ tasks[o].why = "refused"

\* C13: in every step a url recorded in emap stays recorded
VisitSetMonotone == [][\A u \in Urls : emap[u] => emap'[u]]_vars

\* A second request for a recorded url has been worked on and the url is
\* still recorded
VisitSetMonotoneWitness ==
    /\ authpc = "send"
    /\ goahead
    /\ emap[v.Url]
    /\ Cardinality({u \in Urls : emap[u]}) >= 2

\* C14: emap changes only in the step emap[v.Url] = true of the examine
\* goroutine, there only by recording the url asked about, and only when that
\* url was not recorded yet; no step of a Crawl or of main changes emap
VisitSetFrame ==
    [][emap' # emap =>
          /\ authpc = "write" /\ authpc' = "send"
          /\ ~emap[v.Url]
          /\ emap' = [emap EXCEPT ![v.Url] = TRUE]
          /\ tasks' = tasks
          /\ mainpc' = mainpc]_vars

\* Crawls have fetched, started children and delivered signals, and the
\* examine goroutine has just worked on a request for a recorded url
VisitSetFrameWitness ==
    /\ authpc = "send"
    /\ goahead
    /\ \E t \in DOMAIN tasks : tasks[t].pc = "exited"
    /\ \E t \in DOMAIN tasks : tasks[t].pc = "wait"

\* C15: every Crawl reports on the channel made by the Crawl that started it
\* (the first Crawl on the channel of main); a Crawl receives signals from
\* its own children only, a signal is received by the parent of its sender
\* and by nobody else, and a Crawl that returns after the wait loop has
\* received one signal from each child it started
PrivateJoinPoint ==
    /\ \A c \in DOMAIN tasks :
          /\ tasks[c].ch = IF c = <<>> THEN MainCh ELSE Subch(Parent(c))
          /\ tasks[c].recvd \subseteq Children(c)
          /\ \A k \in tasks[c].recvd : tasks[k].pc = "exited" /\ tasks[k].sent = 1
          /\ (c # <<>> /\ tasks[c].pc = "exited") =>
                {t \in DOMAIN tasks : c \in tasks[t].recvd} = {Parent(c)}
          /\ tasks[c].why = "joined" =>
                /\ tasks[c].recvd = Children(c)
                /\ Cardinality(tasks[c].recvd) = Len(tasks[c].urls)
                /\ Cardinality(tasks[c].recvd) = tasks[c].i
    /\ mainpc = "returned" =>
          (tasks[<<>>].pc = "exited" /\ tasks[<<>>].sent = 1)
    /\ (<<>> \in DOMAIN tasks /\ tasks[<<>>].pc = "exited") => mainpc = "returned"

\* Two Crawls started by the same parent have each received the signals of
\* their own children and returned, while their parent is still waiting
PrivateJoinPointWitness ==
    \E t1, t2 \in DOMAIN tasks :
        /\ t1 # t2 /\ t1 # <<>> /\ t2 # <<>>
        /\ Parent(t1) = Parent(t2)
        /\ tasks[t1].why = "joined" /\ tasks[t1].recvd # {}
        /\ tasks[t2].why = "joined" /\ tasks[t2].recvd # {}
        /\ tasks[Parent(t1)].pc = "wait"
        /\ tasks[Parent(t1)].recvd # {}

\* C16: no Crawl sends more than one request on examine, and under fair
\* scheduling the run reaches a point from which on every Crawl has sent
\* exactly one request and has received its answer
ClaimRoundTrip ==
    /\ [](\A t \in DOMAIN tasks :
            /\ tasks[t].asked <= 1
            /\ tasks[t].asked = 1 <=> tasks[t].pc # "ask")
    /\ <>[](/\ <<>> \in DOMAIN tasks
            /\ \A t \in DOMAIN tasks : Answered(t) /\ tasks[t].asked = 1)

\* Two Crawls are blocked in their send on examine while the examine
\* goroutine is working on the request of a third, and the first Crawl,
\* which may have asked before the examine goroutine was started, was answered
ClaimRoundTripWitness ==
    /\ authpc \in {"read", "write", "send"}
    /\ Cardinality({t \in DOMAIN tasks : tasks[t].pc = "ask"}) >= 2
    /\ Answered(<<>>) /\ tasks[<<>>].asked = 1

\* C17: at most one Crawl is between its send on examine and its receive of
\* the answer, and it is the one the examine goroutine holds in v; the value
\* read from emap is still the value of emap when the examine goroutine
\* writes, and the url is recorded when the answer is sent
SingleSerializationPoint ==
    /\ Cardinality({t \in DOMAIN tasks : tasks[t].pc = "await"}) <= 1
    /\ authpc \in {"read", "write", "send"} =>
          /\ v.task \in DOMAIN tasks
          /\ tasks[v.task].pc = "await"
          /\ v.Url = tasks[v.task].url
    /\ authpc \in {"none", "recv"} => \A t \in DOMAIN tasks : tasks[t].pc # "await"
    /\ authpc = "write" => goahead = emap[v.Url]
    /\ authpc = "send" => emap[v.Url]

\* The examine goroutine is between its read and its write for one request
\* while two other Crawls for the same url are blocked in their send
SingleSerializationPointWitness ==
    /\ authpc = "write"
    /\ Cardinality({t \in DOMAIN tasks :
                       tasks[t].pc = "ask" /\ tasks[t].url = v.Url}) >= 2

Range(s) == {s[k] : k \in 1..Len(s)}

\* The urls reachable from Root by a path of at most k links that runs over
\* pages Fetch succeeds for and holds no url of Bad
RECURSIVE ReachVia(_, _)
ReachVia(k, Bad) ==
    IF k < 0 THEN {}
    ELSE IF k = 0 THEN {Root} \ Bad
    ELSE LET R == ReachVia(k - 1, Bad)
         IN R \cup (UNION {Range(fetcher[p]) : p \in R \cap DOMAIN fetcher} \ Bad)

\* The urls whose first request came from a Crawl that ran with depth <= 0
DepthClaimed == {u \in DOMAIN firstReq : Len(firstReq[u]) >= maxDepth}

\* C18 as stated: when main has returned every url reachable by a path of
\* fewer than maxDepth links over successfully fetched pages has been fetched
CompletenessAsStated ==
    mainpc = "returned" => \A u \in ReachVia(maxDepth - 1, {}) : fetchCount[u] = 1

\* C18: when main has returned every url reachable by a path of fewer than
\* maxDepth links over successfully fetched pages has been fetched, unless a
\* url on that path was claimed by a Crawl that ran with depth <= 0
CompletenessUnlessDepthClaimed ==
    mainpc = "returned" =>
        \A u \in ReachVia(maxDepth - 1, DepthClaimed) : fetchCount[u] = 1

\* main has returned from a run in which a url one link from golang was
\* claimed by a Crawl with depth 0, and the other urls in reach were fetched
CompletenessUnlessDepthClaimedWitness ==
    /\ mainpc = "returned"
    /\ maxDepth >= 2
    /\ DepthClaimed \cap ReachVia(maxDepth - 1, {}) # {}
    /\ Cardinality(ReachVia(maxDepth - 1, DepthClaimed)) >= 2

\* C19: a url that has been fetched is recorded in emap, and when main has
\* returned emap records golang and the links of the successfully fetched
\* pages and nothing else
VisitSetContent ==
    /\ \A u \in Urls : fetchCount[u] > 0 => emap[u]
    /\ mainpc = "returned" =>
          {u \in Urls : emap[u]} =
              {Root} \cup UNION {Range(fetcher[p]) :
                                    p \in {q \in DOMAIN fetcher : fetchCount[q] > 0}}

\* main has returned; emap records a url that was never fetched, and the
\* fetcher has a page for a url that was never recorded
VisitSetContentWitness ==
    /\ mainpc = "returned"
    /\ \E u \in Urls : emap[u] /\ fetchCount[u] = 0
    /\ \E u \in DOMAIN fetcher : ~emap[u]
    /\ Cardinality({u \in Urls : emap[u]}) >= 3
====
